---------------------------- MODULE Spec2Model ----------------------------
(***************************************************************************)
(* Model of the two decision engines of the repository:                    *)
(*   credit4.py   run_decision (score bands, referrals, approval matrix)   *)
(*   Credit17.py  run_decision and get_required_approver                   *)
(*                                                                         *)
(* Numbers.  Pence-per-kWh quantities (unit_margin, min_unit_margin,       *)
(* uplift_standing, uplift_unit) are held in tenths, so 0.5 is 5, 1.0 is   *)
(* 10 and 5.0 is 50.  contract_value / contract_term / 4 is a float        *)
(* division in the source; every contract value of the model is a multiple *)
(* of 4 * contract_term, so the quotient is an exact integer and \div      *)
(* computes it.  Python's None is the string "None".                       *)
(***************************************************************************)
EXTENDS Integers, Sequences, FiniteSets

VARIABLES
    prog,               \* which script is running: "credit4" or "Credit17"
    pc,                 \* position inside run_decision / the lookup
    \* ---- form inputs shared by both scripts
    years_trading, smet_compatible, payment_terms, number_of_sites,
    annual_volume, contract_value, contract_term, unit_margin, sic_risk,
    \* ---- credit4 only
    business_type, credit_score, approve_threshold, refer_threshold,
    min_unit_margin, matrix_df,
    \* ---- Credit17 only
    creditsafe_score, recommended_limit, has_ccjs, uplift_standing,
    uplift_unit, limits_df,
    \* ---- locals and results of run_decision
    recommendation,     \* credit4
    decision,           \* Credit17
    reasons, approver,
    exposure_estimate, exposure_passed,   \* credit4
    three_month_exposure,                 \* Credit17
    matched_row,        \* iterrows position at which the tier scan stopped
    prev_row            \* matched_row of the previous lookup, 0 when none

shared_inputs == <<years_trading, smet_compatible, payment_terms,
                   number_of_sites, annual_volume, contract_value,
                   contract_term, unit_margin, sic_risk>>
inputs4  == <<business_type, credit_score, approve_threshold,
              refer_threshold, min_unit_margin, matrix_df>>
inputs17 == <<creditsafe_score, recommended_limit, has_ccjs,
              uplift_standing, uplift_unit, limits_df>>
inputs   == <<prog, shared_inputs, inputs4, inputs17>>
locals   == <<recommendation, decision, reasons, approver,
              exposure_estimate, exposure_passed, three_month_exposure,
              matched_row, prev_row>>
vars     == <<pc, inputs, locals>>

None == "None"
NA   == "n/a"          \* value of a variable the running script does not have

----------------------------------------------------------------------------
(* Bound of the approver-lookup specification *)
MaxTiers == 2          \* longest tier table

(* Thresholds written as literals in Credit17.run_decision *)
LowScore        == 30
ReferScore      == 60
MinMargin       == 5       \* 0.5 p/kWh
MaxUpliftStand  == 50      \* 5.0 p/day
MaxUpliftUnit   == 10      \* 1.0 p/kWh
MinYears        == 1

(* Defaults of the credit4 sidebar *)
ApproveDefault   == 80
ReferDefault     == 60
MinMarginDefault == 5      \* 0.5 p/kWh

(* Reason strings *)
R4_Yu        == "Credit Score <30: Only Yu Energy permitted due to SMET compatibility"
R4_Score     == "Credit Score below minimum threshold"
R4_ScoreRef  == "Credit Score requires referral"
R4_TradeSole == "Insufficient trading history for Sole Trader/Partnership"
R4_TradeLtd  == "Insufficient trading history for Limited Company"
R4_Terms     == "Payment terms exceed acceptable"
R4_Sic       == "SIC Risk too high"
R4_Margin    == "Margin below minimum allowed"
R4_MD        == "Approval by Managing Director required - please email PDF report to md@dyceenergy.com"

R17_DeclScore == "Declined: Credit score below 30 and meter not SMET-compatible."
R17_DeclCcjs  == "Declined: CCJs/defaults present."
R17_DeclExpo  == "Declined: 3-month exposure exceeds recommended limit."
R17_Yu        == "Customer is only eligible with Yu Energy due to SMET compatibility and low score."
R17_Score     == "Referral: Low credit score."
R17_Sic       == "Referral: High sector risk."
R17_Terms     == "Referral: Non-standard payment terms."
R17_Margin    == "Referral: Unit margin below minimum."
R17_UpStand   == "Referral: Standing uplift too high."
R17_UpUnit    == "Referral: Unit rate uplift too high."
R17_Years     == "Referral: Insufficient trading history."

----------------------------------------------------------------------------
(* Input domains *)
Scores         == {20, 45, 70, 85}
YesNo          == {"Yes", "No"}
Years          == {0, 1, 5}
SicRisks       == {"Low", "Medium", "High", "Very High"}
BusinessTypes  == {"Sole Trader", "Partnership", "Limited Company"}
PaymentTerms4  == {"14 Days DD", "14 Days BACS", "30 Days BACS", ">30 Days BACS"}
PaymentTerms17 == {"7 Days Direct Debit", "14 Days DD", "14 Days BACS", "28 Days BACS"}
Margins        == {4, 8}               \* 0.4 and 0.8 p/kWh
UpliftsStand   == {0, 60}              \* 0.0 and 6.0 p/day
UpliftsUnit    == {0, 15}              \* 0.0 and 1.5 p/kWh
ContractValues == {10000, 50000}
ContractTerms  == {2}
RecLimits      == {1000, 5000}
ReferThresholds == {10, ReferDefault}
Roles          == {"Sales Manager", "Managing Director"}

(* Tier rows.  One record shape serves both sheets:                        *)
(*   credit4  : Max_Sites, Max_Spend, Max_Annual_kWh, Approver             *)
(*   Credit17 : 'Max Sites', 'Max Spend (pounds)', 'Max Volume kWh', Role  *)
Tier(s, v, k, r) == [Max_Sites |-> s, Max_Spend |-> v, Max_Volume |-> k, Role |-> r]

SmallTier == Tier(5, 25000, 100000, "Sales Manager")
LargeTier == Tier(10, 100000, 500000, "Commercial Director")
TopTier   == Tier(10, 100000, 500000, "Managing Director")
Matrices  == { <<>>, <<SmallTier, LargeTier>>, <<LargeTier, SmallTier>>,
               <<SmallTier, TopTier>> }

----------------------------------------------------------------------------
(* Helpers *)
AppendIf(cond, seq, r) == IF cond THEN Append(seq, r) ELSE seq

(* RowMatches with the spend ceiling exclusive *)
RowMatches_StrictSpend(row, sites, spend, volume) ==
    /\ sites  <= row.Max_Sites
    /\ spend  <  row.Max_Spend
    /\ volume <= row.Max_Volume

RowMatches(row, sites, spend, volume) ==
    /\ sites  <= row.Max_Sites
    /\ spend  <= row.Max_Spend
    /\ volume <= row.Max_Volume

(* The scan without its early exit: the last matching row wins *)
RECURSIVE LastFrom(_, _, _, _, _)
LastFrom(df, i, sites, spend, volume) ==
    IF i < 1 THEN Len(df) + 1
    ELSE IF sites <= df[i].Max_Sites /\ spend <= df[i].Max_Spend
            /\ volume <= df[i].Max_Volume THEN i
    ELSE LastFrom(df, i - 1, sites, spend, volume)

TierScan_Last(df, sites, spend, volume) ==
    LastFrom(df, Len(df), sites, spend, volume)

(* Position at which "for _, row in df.iterrows()" stops: the index of the *)
(* first row that satisfies the test, Len(df) + 1 when the loop runs out.  *)
RECURSIVE ScanFrom(_, _, _, _, _)
ScanFrom(df, i, sites, spend, volume) ==
    IF i > Len(df) THEN i
    ELSE IF RowMatches(df[i], sites, spend, volume) THEN i
    ELSE ScanFrom(df, i + 1, sites, spend, volume)

TierScan(df, sites, spend, volume) == ScanFrom(df, 1, sites, spend, volume)

(* Credit17.get_required_approver *)
get_required_approver(df, sites, spend, volume) ==
    LET i == TierScan(df, sites, spend, volume)
    IN  IF i <= Len(df) THEN df[i].Role ELSE "Managing Director"

(* credit4's inline loop: approver = "Managing Director"; overwrite; break *)
matrix_approver(df, sites, spend, volume) ==
    LET i == TierScan(df, sites, spend, volume)
    IN  IF i <= Len(df) THEN df[i].Role ELSE "Managing Director"


----------------------------------------------------------------------------
(* Initial states of the decision-engine specification: the form has been  *)
(* filled in, "Run Decision Engine" pressed and run_decision entered.      *)
Init17 ==
    /\ prog = "Credit17"
    /\ pc = "score_decline"
    /\ years_trading \in Years
    /\ smet_compatible \in YesNo
    /\ payment_terms \in PaymentTerms17
    /\ number_of_sites = 1
    /\ annual_volume = 50000
    /\ contract_value \in ContractValues
    /\ contract_term \in ContractTerms
    /\ unit_margin \in Margins
    /\ sic_risk \in SicRisks
    /\ creditsafe_score \in Scores
    /\ recommended_limit \in RecLimits
    /\ has_ccjs \in YesNo
    /\ uplift_standing \in UpliftsStand
    /\ uplift_unit \in UpliftsUnit
    /\ limits_df \in Matrices
    /\ business_type = NA /\ credit_score = 0 /\ approve_threshold = 0
    /\ refer_threshold = 0 /\ min_unit_margin = 0 /\ matrix_df = <<>>
    /\ reasons = <<>>
    /\ decision = "Approved"
    /\ approver = None
    /\ three_month_exposure = (contract_value \div contract_term) \div 4
    /\ recommendation = NA /\ exposure_estimate = 0 /\ exposure_passed = FALSE
    /\ matched_row = 0 /\ prev_row = 0

Init4 ==
    /\ prog = "credit4"
    /\ pc = "score"
    /\ years_trading \in Years
    /\ smet_compatible \in YesNo
    /\ payment_terms \in PaymentTerms4
    /\ number_of_sites = 1
    /\ annual_volume = 50000
    /\ contract_value \in ContractValues
    /\ contract_term \in ContractTerms
    /\ unit_margin \in Margins
    /\ sic_risk \in SicRisks
    /\ business_type \in BusinessTypes
    /\ credit_score \in Scores
    /\ approve_threshold = ApproveDefault
    /\ refer_threshold \in ReferThresholds
    /\ min_unit_margin = MinMarginDefault
    /\ matrix_df \in Matrices
    /\ creditsafe_score = 0 /\ recommended_limit = 0 /\ has_ccjs = NA
    /\ uplift_standing = 0 /\ uplift_unit = 0 /\ limits_df = <<>>
    /\ reasons = <<>>
    /\ recommendation = "Approved"
    /\ approver = None
    /\ decision = NA /\ three_month_exposure = 0
    /\ exposure_estimate = 0 /\ exposure_passed = FALSE
    /\ matched_row = 0 /\ prev_row = 0

Init == Init4 \/ Init17

----------------------------------------------------------------------------
(* Credit17.run_decision, statement by statement *)

ScoreDecline17 ==
    /\ prog = "Credit17" /\ pc = "score_decline"
    /\ IF creditsafe_score < LowScore /\ smet_compatible = "No"
       THEN /\ decision' = "Declined"
            /\ reasons' = Append(reasons, R17_DeclScore)
       ELSE UNCHANGED <<decision, reasons>>
    /\ pc' = "ccjs"
    /\ UNCHANGED <<inputs, recommendation, approver, exposure_estimate,
                   exposure_passed, three_month_exposure, matched_row,
                   prev_row>>

(* CcjsDecline17 written as an elif of the score decline *)
CcjsDecline17_Elif ==
    /\ prog = "Credit17" /\ pc = "ccjs"
    /\ IF has_ccjs = "Yes" /\ decision # "Declined"
       THEN /\ decision' = "Declined"
            /\ reasons' = Append(reasons, R17_DeclCcjs)
       ELSE UNCHANGED <<decision, reasons>>
    /\ pc' = "exposure"
    /\ UNCHANGED <<inputs, recommendation, approver, exposure_estimate,
                   exposure_passed, three_month_exposure, matched_row,
                   prev_row>>

CcjsDecline17 ==
    /\ prog = "Credit17" /\ pc = "ccjs"
    /\ IF has_ccjs = "Yes"
       THEN /\ decision' = "Declined"
            /\ reasons' = Append(reasons, R17_DeclCcjs)
       ELSE UNCHANGED <<decision, reasons>>
    /\ pc' = "exposure"
    /\ UNCHANGED <<inputs, recommendation, approver, exposure_estimate,
                   exposure_passed, three_month_exposure, matched_row,
                   prev_row>>

(* ExposureDecline17 testing the exposure against the contract value, as *)
(* the exposure test of credit4 does                                    *)
ExposureDecline17_vsValue ==
    /\ prog = "Credit17" /\ pc = "exposure"
    /\ IF three_month_exposure > contract_value
       THEN /\ decision' = "Declined"
            /\ reasons' = Append(reasons, R17_DeclExpo)
       ELSE UNCHANGED <<decision, reasons>>
    /\ pc' = "carve_out"
    /\ UNCHANGED <<inputs, recommendation, approver, exposure_estimate,
                   exposure_passed, three_month_exposure, matched_row,
                   prev_row>>

ExposureDecline17 ==
    /\ prog = "Credit17" /\ pc = "exposure"
    /\ IF three_month_exposure > recommended_limit
       THEN /\ decision' = "Declined"
            /\ reasons' = Append(reasons, R17_DeclExpo)
       ELSE UNCHANGED <<decision, reasons>>
    /\ pc' = "carve_out"
    /\ UNCHANGED <<inputs, recommendation, approver, exposure_estimate,
                   exposure_passed, three_month_exposure, matched_row,
                   prev_row>>

CarveOut17 ==
    /\ prog = "Credit17" /\ pc = "carve_out"
    /\ reasons' = AppendIf(creditsafe_score < LowScore /\ smet_compatible = "Yes",
                           reasons, R17_Yu)
    /\ pc' = "referrals"
    /\ UNCHANGED <<inputs, recommendation, decision, approver,
                   exposure_estimate, exposure_passed, three_month_exposure,
                   matched_row, prev_row>>

(* ReferralReasons17 with the trading-history test off by one *)
ReferralReasons17_YearsLe(rs) ==
    LET r1 == AppendIf(creditsafe_score < ReferScore, rs, R17_Score)
        r2 == AppendIf(sic_risk \in {"High", "Very High"}, r1, R17_Sic)
        r3 == AppendIf(payment_terms # "7 Days Direct Debit", r2, R17_Terms)
        r4 == AppendIf(unit_margin < MinMargin, r3, R17_Margin)
        r5 == AppendIf(uplift_standing > MaxUpliftStand, r4, R17_UpStand)
        r6 == AppendIf(uplift_unit > MaxUpliftUnit, r5, R17_UpUnit)
    IN  AppendIf(years_trading <= MinYears, r6, R17_Years)

(* The seven appends of lines 126-139, in source order *)
ReferralReasons17(rs) ==
    LET r1 == AppendIf(creditsafe_score < ReferScore, rs, R17_Score)
        r2 == AppendIf(sic_risk \in {"High", "Very High"}, r1, R17_Sic)
        r3 == AppendIf(payment_terms # "7 Days Direct Debit", r2, R17_Terms)
        r4 == AppendIf(unit_margin < MinMargin, r3, R17_Margin)
        r5 == AppendIf(uplift_standing > MaxUpliftStand, r4, R17_UpStand)
        r6 == AppendIf(uplift_unit > MaxUpliftUnit, r5, R17_UpUnit)
    IN  AppendIf(years_trading < MinYears, r6, R17_Years)

Referrals17 ==
    /\ prog = "Credit17" /\ pc = "referrals"
    /\ reasons' = IF decision # "Declined" THEN ReferralReasons17(reasons)
                  ELSE reasons
    /\ pc' = "approver"
    /\ UNCHANGED <<inputs, recommendation, decision, approver,
                   exposure_estimate, exposure_passed, three_month_exposure,
                   matched_row, prev_row>>

(* line 141 (still inside "if decision != Declined") and the return *)
Approver17 ==
    /\ prog = "Credit17" /\ pc = "approver"
    /\ IF decision # "Declined"
       THEN /\ approver' = get_required_approver(limits_df, number_of_sites,
                                                 contract_value, annual_volume)
            /\ matched_row' = TierScan(limits_df, number_of_sites,
                                       contract_value, annual_volume)
       ELSE /\ approver' = None
            /\ UNCHANGED matched_row
    /\ pc' = "done"
    /\ UNCHANGED <<inputs, recommendation, decision, reasons, prev_row,
                   exposure_estimate, exposure_passed, three_month_exposure>>

----------------------------------------------------------------------------
(* credit4.run_decision, statement by statement *)

ScoreBand4 ==
    /\ prog = "credit4" /\ pc = "score"
    /\ IF credit_score < refer_threshold
       THEN IF credit_score < 30 /\ smet_compatible = "Yes"
            THEN /\ recommendation' = "Approved with Yu Energy Only"
                 /\ reasons' = Append(reasons, R4_Yu)
            ELSE /\ recommendation' = "Declined"
                 /\ reasons' = Append(reasons, R4_Score)
       ELSE IF refer_threshold <= credit_score /\ credit_score < approve_threshold
            THEN /\ recommendation' = "Refer"
                 /\ reasons' = Append(reasons, R4_ScoreRef)
            ELSE UNCHANGED <<recommendation, reasons>>
    /\ pc' = "trading"
    /\ UNCHANGED <<inputs, decision, approver, exposure_estimate,
                   exposure_passed, three_month_exposure, matched_row,
                   prev_row>>

TradingHistory4 ==
    /\ prog = "credit4" /\ pc = "trading"
    /\ IF business_type # "Limited Company" /\ years_trading < 1
       THEN /\ recommendation' = "Refer"
            /\ reasons' = Append(reasons, R4_TradeSole)
       ELSE IF business_type = "Limited Company" /\ years_trading < 2
            THEN /\ recommendation' = "Refer"
                 /\ reasons' = Append(reasons, R4_TradeLtd)
            ELSE UNCHANGED <<recommendation, reasons>>
    /\ pc' = "terms"
    /\ UNCHANGED <<inputs, decision, approver, exposure_estimate,
                   exposure_passed, three_month_exposure, matched_row,
                   prev_row>>

PaymentTermsCheck4 ==
    /\ prog = "credit4" /\ pc = "terms"
    /\ IF payment_terms # "14 Days DD" /\ payment_terms # "14 Days BACS"
       THEN /\ recommendation' = "Refer"
            /\ reasons' = Append(reasons, R4_Terms)
       ELSE UNCHANGED <<recommendation, reasons>>
    /\ pc' = "sic"
    /\ UNCHANGED <<inputs, decision, approver, exposure_estimate,
                   exposure_passed, three_month_exposure, matched_row,
                   prev_row>>

SicRisk4 ==
    /\ prog = "credit4" /\ pc = "sic"
    /\ IF sic_risk \in {"High", "Very High"}
       THEN /\ recommendation' = "Refer"
            /\ reasons' = Append(reasons, R4_Sic)
       ELSE UNCHANGED <<recommendation, reasons>>
    /\ pc' = "margin"
    /\ UNCHANGED <<inputs, decision, approver, exposure_estimate,
                   exposure_passed, three_month_exposure, matched_row,
                   prev_row>>

Margin4 ==
    /\ prog = "credit4" /\ pc = "margin"
    /\ IF unit_margin < min_unit_margin
       THEN /\ recommendation' = "Refer"
            /\ reasons' = Append(reasons, R4_Margin)
       ELSE UNCHANGED <<recommendation, reasons>>
    /\ pc' = "matrix"
    /\ UNCHANGED <<inputs, decision, approver, exposure_estimate,
                   exposure_passed, three_month_exposure, matched_row,
                   prev_row>>

(* ApprovalMatrix4 without the "elif Declined: approver = None" branch *)
ApprovalMatrix4_KeepApprover ==
    /\ prog = "credit4" /\ pc = "matrix"
    /\ exposure_estimate' = (contract_value \div contract_term) \div 4
    /\ exposure_passed' = (exposure_estimate' <= contract_value)
    /\ matched_row' = TierScan(matrix_df, number_of_sites, contract_value,
                               annual_volume)
    /\ LET a == matrix_approver(matrix_df, number_of_sites, contract_value,
                                annual_volume)
       IN  IF recommendation = "Approved with Yu Energy Only"
           THEN /\ approver' = "Yu Energy Only"
                /\ UNCHANGED reasons
           ELSE /\ approver' = a
                /\ reasons' = AppendIf(a = "Managing Director", reasons, R4_MD)
    /\ pc' = "done"
    /\ UNCHANGED <<inputs, recommendation, decision, three_month_exposure,
                   prev_row>>

(* lines 119-140: exposure test, approval matrix, approver override, return *)
ApprovalMatrix4 ==
    /\ prog = "credit4" /\ pc = "matrix"
    /\ exposure_estimate' = (contract_value \div contract_term) \div 4
    /\ exposure_passed' = (exposure_estimate' <= contract_value)
    /\ matched_row' = TierScan(matrix_df, number_of_sites, contract_value,
                               annual_volume)
    /\ LET a == matrix_approver(matrix_df, number_of_sites, contract_value,
                                annual_volume)
       IN  IF recommendation = "Approved with Yu Energy Only"
           THEN /\ approver' = "Yu Energy Only"
                /\ UNCHANGED reasons
           ELSE IF recommendation = "Declined"
           THEN /\ approver' = None
                /\ UNCHANGED reasons
           ELSE /\ approver' = a
                /\ reasons' = AppendIf(a = "Managing Director", reasons, R4_MD)
    /\ pc' = "done"
    /\ UNCHANGED <<inputs, recommendation, decision, three_month_exposure,
                   prev_row>>

Next ==
    \/ ScoreDecline17 \/ CcjsDecline17 \/ ExposureDecline17 \/ CarveOut17
    \/ Referrals17 \/ Approver17
    \/ ScoreBand4 \/ TradingHistory4 \/ PaymentTermsCheck4 \/ SicRisk4
    \/ Margin4 \/ ApprovalMatrix4

Spec == Init /\ [][Next]_vars

(* The verdict variable of the running script *)
Verdict == IF prog = "credit4" THEN recommendation ELSE decision

Contains(seq, r) == \E i \in 1..Len(seq) : seq[i] = r


----------------------------------------------------------------------------
(* The approver lookup on its own: any tier table of at most MaxTiers rows *)
(* with ceilings in Ceilings (duplicate, overlapping and non-monotone      *)
(* tables included), any query at, between or above the ceilings, and      *)
(* repeated lookups with one argument raised.                              *)
Ceilings  == {1, 2}
Args      == {1, 2, 3}
TierRows  == { Tier(s, v, k, r) : s \in Ceilings, v \in Ceilings,
                                  k \in Ceilings, r \in Roles }
TierTables == UNION { [1..n -> TierRows] : n \in 0..MaxTiers }

(* The table the running script scans *)
Table == IF prog = "credit4" THEN matrix_df ELSE limits_df

InitApprover ==
    /\ prog \in {"credit4", "Credit17"}
    /\ pc = "lookup"
    /\ \E t \in TierTables :
          /\ matrix_df = IF prog = "credit4" THEN t ELSE <<>>
          /\ limits_df = IF prog = "Credit17" THEN t ELSE <<>>
    /\ number_of_sites \in Args
    /\ contract_value \in Args
    /\ annual_volume \in Args
    /\ years_trading = 0 /\ smet_compatible = NA /\ payment_terms = NA
    /\ contract_term = 1 /\ unit_margin = 0 /\ sic_risk = NA
    /\ business_type = NA /\ credit_score = 0 /\ approve_threshold = 0
    /\ refer_threshold = 0 /\ min_unit_margin = 0
    /\ creditsafe_score = 0 /\ recommended_limit = 0 /\ has_ccjs = NA
    /\ uplift_standing = 0 /\ uplift_unit = 0
    /\ recommendation = NA /\ decision = NA /\ reasons = <<>>
    /\ approver = None
    /\ exposure_estimate = 0 /\ exposure_passed = FALSE
    /\ three_month_exposure = 0
    /\ matched_row = 0 /\ prev_row = 0

lookup_unchanged == <<prog, years_trading, smet_compatible, payment_terms,
                      contract_term, unit_margin, sic_risk, inputs4, inputs17,
                      recommendation, decision, reasons, exposure_estimate,
                      exposure_passed, three_month_exposure>>

(* One call of the lookup with the arguments s, v, k *)
Resolve(s, v, k) ==
    /\ approver' = IF prog = "credit4"
                   THEN matrix_approver(matrix_df, s, v, k)
                   ELSE get_required_approver(limits_df, s, v, k)
    /\ matched_row' = TierScan(Table, s, v, k)

Lookup17 ==
    /\ prog = "Credit17" /\ pc = "lookup"
    /\ Resolve(number_of_sites, contract_value, annual_volume)
    /\ pc' = "resolved"
    /\ UNCHANGED <<lookup_unchanged, number_of_sites, contract_value,
                   annual_volume, prev_row>>

Lookup4 ==
    /\ prog = "credit4" /\ pc = "lookup"
    /\ Resolve(number_of_sites, contract_value, annual_volume)
    /\ pc' = "resolved"
    /\ UNCHANGED <<lookup_unchanged, number_of_sites, contract_value,
                   annual_volume, prev_row>>

(* The form is resubmitted with one of the three sizes raised *)
RaiseSites ==
    /\ pc = "resolved"
    /\ \E s \in Args :
          /\ s > number_of_sites
          /\ number_of_sites' = s
          /\ Resolve(s, contract_value, annual_volume)
    /\ prev_row' = matched_row
    /\ UNCHANGED <<pc, lookup_unchanged, contract_value, annual_volume>>

RaiseSpend ==
    /\ pc = "resolved"
    /\ \E v \in Args :
          /\ v > contract_value
          /\ contract_value' = v
          /\ Resolve(number_of_sites, v, annual_volume)
    /\ prev_row' = matched_row
    /\ UNCHANGED <<pc, lookup_unchanged, number_of_sites, annual_volume>>

RaiseVolume ==
    /\ pc = "resolved"
    /\ \E k \in Args :
          /\ k > annual_volume
          /\ annual_volume' = k
          /\ Resolve(number_of_sites, contract_value, k)
    /\ prev_row' = matched_row
    /\ UNCHANGED <<pc, lookup_unchanged, number_of_sites, contract_value>>

NextApprover ==
    \/ Lookup17 \/ Lookup4 \/ RaiseSites \/ RaiseSpend \/ RaiseVolume

SpecApprover == InitApprover /\ [][NextApprover]_vars


----------------------------------------------------------------------------
(* Conditions on the submitted form, written from the rule descriptions    *)
(* and not from the step definitions above.                                *)
Returned == pc = "done"

ExposureOverLimit == contract_value > recommended_limit * contract_term * 4

LowScoreBadMeter17  == creditsafe_score < 30 /\ smet_compatible = "No"
LowScoreGoodMeter17 == creditsafe_score < 30 /\ smet_compatible = "Yes"
AnyDecline17 == LowScoreBadMeter17 \/ has_ccjs = "Yes" \/ ExposureOverLimit

HighSector == sic_risk = "High" \/ sic_risk = "Very High"

(* The whitelist of accepted payment terms the description gives *)
AcceptedTermsListed == {"7 Days Direct Debit", "14 Days DD", "14 Days BACS",
                        "28 Days BACS"}

ShortHistory4 ==
    \/ business_type # "Limited Company" /\ years_trading < 1
    \/ business_type = "Limited Company" /\ years_trading < 2
BadTerms4 == payment_terms \notin {"14 Days DD", "14 Days BACS"}
AnyReferral4 ==
    ShortHistory4 \/ BadTerms4 \/ HighSector \/ unit_margin < min_unit_margin

(* Referral conditions of Credit17 other than the score and the terms *)
OtherReferral17 ==
    \/ HighSector
    \/ unit_margin < 5
    \/ uplift_standing > 50
    \/ uplift_unit > 10
    \/ years_trading < 1

(* Rows of the scanned table whose three ceilings dominate the query *)
MatchingRows ==
    { i \in 1..Len(Table) : /\ number_of_sites <= Table[i].Max_Sites
                            /\ contract_value  <= Table[i].Max_Spend
                            /\ annual_volume   <= Table[i].Max_Volume }
FirstMatchingRow ==
    CHOOSE i \in MatchingRows : \A j \in MatchingRows : i <= j
FirstMatchingRole ==
    IF MatchingRows = {} THEN "Managing Director"
    ELSE Table[FirstMatchingRow].Role

----------------------------------------------------------------------------
(* C1: once the verdict has been set to Declined during an evaluation, no  *)
(* later rule step changes it: every step taken from a state whose verdict *)
(* is Declined leaves the verdict Declined.                                *)
C1_DeclinedIsFinal ==
    [][(Verdict = "Declined" /\ pc # "done") => Verdict' = "Declined"]_vars

(* C2: whenever the three-month exposure (contract_value / contract_term   *)
(* / 4) is greater than the recommended credit limit, the returned verdict *)
(* is Declined, whatever the other fields are.                             *)
C2_ExposureOverLimitDeclined ==
    (prog = "Credit17" /\ Returned /\ ExposureOverLimit)
        => decision = "Declined"

C2_Witness ==
    /\ prog = "Credit17" /\ Returned /\ ExposureOverLimit
    /\ creditsafe_score = 85 /\ has_ccjs = "No"
    /\ decision = "Declined"
    /\ reasons = <<R17_DeclExpo>>

(* C3: whenever adverse credit history (CCJs/defaults) is "Yes", the       *)
(* returned verdict is Declined and the reason list contains the           *)
(* adverse-credit decline reason, whatever the other inputs are.           *)
C3_AdverseCreditDeclined ==
    (prog = "Credit17" /\ Returned /\ has_ccjs = "Yes")
        => /\ decision = "Declined"
           /\ Contains(reasons, R17_DeclCcjs)

C3_Witness ==
    /\ prog = "Credit17" /\ Returned /\ has_ccjs = "Yes"
    /\ LowScoreBadMeter17 /\ ExposureOverLimit
    /\ decision = "Declined"
    /\ reasons = <<R17_DeclScore, R17_DeclCcjs, R17_DeclExpo>>

(* C4: when the verdict is not Declined and a referral condition holds     *)
(* (score in [30, 60), sector risk High or Very High, margin below the     *)
(* floor, an uplift above its ceiling, years trading below the minimum),   *)
(* the returned verdict is Refer, not Approved.                            *)
C4_ReferralGivesRefer ==
    /\ (prog = "Credit17" /\ Returned /\ ~AnyDecline17
          /\ (OtherReferral17
                \/ (creditsafe_score >= 30 /\ creditsafe_score < 60)))
         => decision = "Refer"
    /\ (prog = "credit4" /\ Returned /\ recommendation # "Declined"
          /\ AnyReferral4)
         => recommendation = "Refer"

(* C5: with credit score at or above the referral threshold (60), no       *)
(* decline condition and no other referral condition (sector risk not      *)
(* high, payment terms in the accepted set, margin at or above the floor,  *)
(* uplifts within their ceilings, enough years trading), the returned      *)
(* verdict is Approved and the reason list is empty.                       *)
C5_ApprovedNoReasons_Original ==
    /\ (prog = "Credit17" /\ Returned /\ creditsafe_score >= 60
          /\ ~AnyDecline17 /\ ~OtherReferral17
          /\ payment_terms \in AcceptedTermsListed)
         => (decision = "Approved" /\ reasons = <<>>)
    /\ (prog = "credit4" /\ Returned /\ credit_score >= 60
          /\ credit_score >= refer_threshold /\ ~AnyReferral4)
         => (recommendation = "Approved" /\ reasons = <<>>)

(* C5 as amended: the verdict is Approved and the reason list empty when   *)
(* no decline condition and none of the running script's own referral      *)
(* conditions holds.  In Credit17 that needs payment terms equal to        *)
(* "7 Days Direct Debit"; in credit4 it needs a score at or above both the *)
(* referral and the approval threshold and a tier lookup that does not     *)
(* yield "Managing Director".                                              *)
C5_ApprovedNoReasons ==
    /\ (prog = "Credit17" /\ Returned /\ creditsafe_score >= 60
          /\ ~AnyDecline17 /\ ~OtherReferral17
          /\ payment_terms = "7 Days Direct Debit")
         => (decision = "Approved" /\ reasons = <<>>)
    /\ (prog = "credit4" /\ Returned
          /\ credit_score >= refer_threshold
          /\ credit_score >= approve_threshold
          /\ ~AnyReferral4
          /\ FirstMatchingRole # "Managing Director")
         => (recommendation = "Approved" /\ reasons = <<>>)

C5_Witness ==
    /\ prog = "Credit17" /\ Returned
    /\ creditsafe_score = 85 /\ has_ccjs = "No" /\ smet_compatible = "Yes"
    /\ payment_terms = "7 Days Direct Debit" /\ unit_margin = 8
    /\ uplift_standing = 0 /\ uplift_unit = 0 /\ years_trading = 1
    /\ contract_value = 10000 /\ contract_term = 2
    /\ recommended_limit = 5000 /\ three_month_exposure = 1250
    /\ decision = "Approved" /\ reasons = <<>> /\ approver = "Sales Manager"

(* C6: with credit score below 30, a compatible meter and no decline       *)
(* condition, the returned verdict is the restricted approval (or Approved *)
(* with the exception reason present), never Declined, and the             *)
(* exception-path reason is in the reason list.                            *)
C6_CarveOutVerdict ==
    /\ (prog = "Credit17" /\ Returned /\ LowScoreGoodMeter17
          /\ ~AnyDecline17)
         => (decision = "Approved" /\ Contains(reasons, R17_Yu))
    /\ (prog = "credit4" /\ Returned /\ credit_score < 30
          /\ smet_compatible = "Yes" /\ credit_score < refer_threshold)
         => (recommendation = "Approved with Yu Energy Only"
               /\ Contains(reasons, R4_Yu))

(* C7: on the carve-out path (score below 30, compatible meter, no decline *)
(* condition) the returned approver is the label "Yu Energy Only", never a *)
(* role of the tier table or the fallback role.                            *)
C7_CarveOutApprover ==
    (Returned
       /\ \/ prog = "Credit17" /\ LowScoreGoodMeter17 /\ ~AnyDecline17
          \/ prog = "credit4" /\ credit_score < 30 /\ smet_compatible = "Yes"
               /\ credit_score < refer_threshold)
      => approver = "Yu Energy Only"

(* C8: in every returned outcome the approver is present exactly when the  *)
(* verdict is not Declined.                                                *)
C8_ApproverIffNotDeclined ==
    Returned => ((approver # None) <=> (Verdict # "Declined"))

C8_Witness ==
    /\ prog = "credit4" /\ Returned
    /\ recommendation = "Declined" /\ approver = None
    /\ matched_row = 1 /\ Len(matrix_df) = 2

(* C9: the lookup returns the role of the first row, in table order, whose *)
(* three ceilings are all at or above the query, also when later rows      *)
(* match; it returns "Managing Director" when no row matches or the table  *)
(* is empty; and no step changes the tier table.                           *)
C9_FirstMatchWins ==
    [][/\ Table' = Table
       /\ pc' = "resolved" => approver' = FirstMatchingRole']_vars

C9_Witness ==
    /\ pc = "resolved"
    /\ Len(Table) = 2 /\ MatchingRows = {1, 2}
    /\ Table[1].Role = "Sales Manager" /\ Table[2].Role = "Managing Director"
    /\ Table[1].Max_Spend > Table[2].Max_Spend
    /\ approver = "Sales Manager"

(* C10: after one of sites, spend or volume is raised with the other two   *)
(* held fixed, the position of the matched row (table length + 1 for the   *)
(* fallback) is never lower than it was before.                            *)
C10_Monotonic ==
    (pc = "resolved" /\ prev_row # 0) => matched_row >= prev_row

C10_Witness ==
    /\ pc = "resolved" /\ prev_row = 1 /\ matched_row = Len(Table) + 1
    /\ Len(Table) = 2
    /\ Table[2].Max_Sites > Table[1].Max_Sites
    /\ approver = "Managing Director"

=============================================================================
